---- MODULE Spec2Model ----
(***************************************************************************)
(* Model of load_dataset_tfrecords.py: the frame-rate reducer _reduce_fps  *)
(* (30 fps -> 25 fps by dropping every sixth frame) and the per-GPU        *)
(* sample loop of load_dataset that calls it.                              *)
(*                                                                         *)
(* Tensors are sequences.  A 1-D tensor is a sequence of integers, a 2-D   *)
(* tensor a sequence of rows, a video a sequence of frames.  Positions in  *)
(* the code are 0-based, TLA+ sequences are 1-based: index value v of the  *)
(* code addresses element v+1 of the sequence.                             *)
(***************************************************************************)
EXTENDS Integers, Sequences, FiniteSets, TLC

\* ------------------------------------------------------------------ bounds
MaxFrames == 13
MaxStart == 1
MaxGpus == 2
MaxRecFrames == 7

VARIABLES
    \* locals of _reduce_fps
    video, frame_count, remove_count, intermediate_frames, indices,
    additions, output_frames, indices_to_keep, output, rpc,
    \* repeated application of _reduce_fps
    app, first,
    \* locals of load_dataset
    num_gpus, dataset, gpu_idx, pc, features, frames, height, width,
    channel, label, name, input_data_tensor, labels_tensor,
    input_data_list, labels_list, names_list,
    \* the records handed out by the reader, the calls made to the model
    reads, preprocess_calls, returned

reduce_vars == <<video, frame_count, remove_count, intermediate_frames,
                 indices, additions, output_frames, indices_to_keep,
                 output, rpc>>
app_vars == <<app, first>>
load_vars == <<num_gpus, dataset, gpu_idx, pc, features, frames, height,
               width, channel, label, name, input_data_tensor,
               labels_tensor, input_data_list, labels_list, names_list,
               reads, preprocess_calls, returned>>
vars == <<reduce_vars, app_vars, load_vars>>

\* --------------------------------------------------- tensor operations used
\* tf.divide on two integers is true division: the exact quotient x / y,
\* kept here as the pair <<numerator, denominator>>.
TfDivide(x, y) == <<x, y>>

Abs(x) == IF x < 0 THEN -x ELSE x

TfCeil_Floor(q) ==
    CHOOSE k \in (0 - Abs(q[1]) - 1)..(Abs(q[1]) + 1) :
        k * q[2] <= q[1] /\ (k + 1) * q[2] > q[1]

\* tf.ceil followed by the cast to int32: the least integer k with k >= x/y
\* (y > 0).
TfCeil(q) ==
    CHOOSE k \in (0 - Abs(q[1]) - 1)..(Abs(q[1]) + 1) :
        k * q[2] >= q[1] /\ (k - 1) * q[2] < q[1]

\* tf.tile of a 1-D tensor: m copies after one another; m < 0 is an error.
TfTileOk(t, m) == m >= 0
TfTile(t, m) == [i \in 1..(Len(t) * m) |-> t[((i - 1) % Len(t)) + 1]]

\* tf.reshape of a 1-D tensor to shape [n]: same elements, needs n of them.
TfReshapeOk(t, n) == Len(t) = n
TfReshape(t, n) == t

TfRange_FromOne(n) == [i \in 1..n |-> i]

\* tf.range(n) = [0, 1, ..., n-1]
TfRange(n) == [i \in 1..n |-> i - 1]

\* tf.stack of five equal-length 1-D tensors: a 5 x n matrix.
TfStack(a, b, c, d, e) == <<a, b, c, d, e>>

TfTranspose_Missing(m) == m

\* tf.transpose of an r x n matrix: n x r.
TfTranspose(m) ==
    IF m = <<>> THEN <<>>
    ELSE [j \in 1..Len(m[1]) |-> [i \in 1..Len(m) |-> m[i][j]]]

\* tf.reshape of a matrix to one dimension: the rows, one after another.
RECURSIVE TfFlatten(_)
TfFlatten(m) == IF m = <<>> THEN <<>> ELSE m[1] \o TfFlatten(Tail(m))

\* tf.multiply of a 1-D tensor by a scalar, tf.add of two 1-D tensors.
TfMultiply(t, k) == [i \in 1..Len(t) |-> t[i] * k]
TfAdd(a, b) == [i \in 1..Len(a) |-> a[i] + b[i]]

RemoveCountCond_NoSubtract(fc, rc) == rc

RemoveCountCond_AlwaysSubtract(fc, rc) == rc - 1

RemoveCountCond_Swapped(fc, rc) == IF fc = rc * 6 THEN rc - 1 ELSE rc

\* the tf.cond of lines 142-144
RemoveCountCond(fc, rc) == IF fc = rc * 6 THEN rc ELSE rc - 1

TfSlice_Tail(t, begin, size) == SubSeq(t, Len(t) - size + 1, Len(t))

\* tf.slice of a 1-D tensor: size elements from position begin; asking for
\* more elements than there are is an error.
TfSliceOk(t, begin, size) ==
    begin >= 0 /\ size >= 0 /\ begin + size <= Len(t)
TfSlice(t, begin, size) == SubSeq(t, begin + 1, begin + size)

TfGather_Prefix(params, idx) == SubSeq(params, 1, Len(idx))

\* tf.gather along the first axis; an index outside [0, len) is an error.
TfGatherOk(params, idx) ==
    \A i \in 1..Len(idx) : idx[i] >= 0 /\ idx[i] < Len(params)
TfGather(params, idx) == [i \in 1..Len(idx) |-> params[idx[i] + 1]]

\* ------------------------------------------------------------- _reduce_fps
\* line 130
reduce_fps_l130 ==
    /\ rpc = "l130"
    /\ remove_count' = TfCeil(TfDivide(frame_count, 6))
    /\ rpc' = "l132"
    /\ UNCHANGED <<video, frame_count, intermediate_frames, indices,
                   additions, output_frames, indices_to_keep, output>>
    /\ UNCHANGED <<app_vars, load_vars>>

\* lines 132-134
reduce_fps_l132 ==
    /\ rpc = "l132"
    /\ intermediate_frames' = remove_count * 5
    /\ IF /\ TfTileOk(<<0, 1, 2, 3, 4>>, remove_count)
          /\ TfReshapeOk(TfTile(<<0, 1, 2, 3, 4>>, remove_count),
                         remove_count * 5)
       THEN /\ indices' = TfReshape(TfTile(<<0, 1, 2, 3, 4>>, remove_count),
                                    remove_count * 5)
            /\ rpc' = "l135"
       ELSE /\ rpc' = "error"
            /\ UNCHANGED indices
    /\ UNCHANGED <<video, frame_count, remove_count, additions,
                   output_frames, indices_to_keep, output>>
    /\ UNCHANGED <<app_vars, load_vars>>

\* lines 135-140
reduce_fps_l135 ==
    /\ rpc = "l135"
    /\ LET a1 == TfRange(remove_count)
           a2 == TfStack(a1, a1, a1, a1, a1)
           a3 == TfTranspose(a2)
           a4 == TfFlatten(a3)
       IN IF TfReshapeOk(a4, intermediate_frames)
          THEN /\ additions' = TfMultiply(TfReshape(a4, intermediate_frames), 6)
               /\ IF Len(indices) = Len(additions')
                  THEN /\ indices' = TfAdd(indices, additions')
                       /\ rpc' = "l142"
                  ELSE /\ rpc' = "error"
                       /\ UNCHANGED indices
          ELSE /\ rpc' = "error"
               /\ UNCHANGED <<additions, indices>>
    /\ UNCHANGED <<video, frame_count, remove_count, intermediate_frames,
                   output_frames, indices_to_keep, output>>
    /\ UNCHANGED <<app_vars, load_vars>>

\* lines 142-145
reduce_fps_l142 ==
    /\ rpc = "l142"
    /\ remove_count' = RemoveCountCond(frame_count, remove_count)
    /\ output_frames' = frame_count - remove_count'
    /\ rpc' = "l147"
    /\ UNCHANGED <<video, frame_count, intermediate_frames, indices,
                   additions, indices_to_keep, output>>
    /\ UNCHANGED <<app_vars, load_vars>>

\* lines 147-148
reduce_fps_l147 ==
    /\ rpc = "l147"
    /\ IF TfSliceOk(indices, 0, output_frames)
       THEN /\ indices' = TfSlice(indices, 0, output_frames)
            /\ IF TfReshapeOk(indices', output_frames)
               THEN /\ indices_to_keep' = TfReshape(indices', output_frames)
                    /\ rpc' = "l149"
               ELSE /\ rpc' = "error"
                    /\ UNCHANGED indices_to_keep
       ELSE /\ rpc' = "error"
            /\ UNCHANGED <<indices, indices_to_keep>>
    /\ UNCHANGED <<video, frame_count, remove_count, intermediate_frames,
                   additions, output_frames, output>>
    /\ UNCHANGED <<app_vars, load_vars>>

\* lines 149-150
reduce_fps_l149 ==
    /\ rpc = "l149"
    /\ IF TfGatherOk(video, indices_to_keep)
       THEN /\ output' = TfGather(video, indices_to_keep)
            /\ rpc' = "done"
       ELSE /\ rpc' = "error"
            /\ UNCHANGED output
    /\ UNCHANGED <<video, frame_count, remove_count, intermediate_frames,
                   indices, additions, output_frames, indices_to_keep>>
    /\ UNCHANGED <<app_vars, load_vars>>

\* ----------------------------------------- _reduce_fps applied on its own
\* A video of n frames in which every frame is different: frame i is the
\* number start + i.
TestVideo(n, start) == [i \in 1..n |-> start + i - 1]

NoFeatures == [Label |-> 0, Data |-> <<>>, Frames |-> 0, Height |-> 0,
               Width |-> 0, Channels |-> 0, Name |-> ""]

LoadIdle ==
    /\ num_gpus = 0
    /\ dataset = <<>>
    /\ gpu_idx = 0
    /\ pc = "idle"
    /\ features = NoFeatures
    /\ frames = 0 /\ height = 0 /\ width = 0 /\ channel = 0 /\ label = 0
    /\ name = ""
    /\ input_data_tensor = <<>>
    /\ labels_tensor = <<>>
    /\ input_data_list = <<>> /\ labels_list = <<>> /\ names_list = <<>>
    /\ reads = <<>> /\ preprocess_calls = <<>>
    /\ returned = <<>>

ReduceLocalsUnset ==
    /\ remove_count = 0
    /\ intermediate_frames = 0
    /\ indices = <<>>
    /\ additions = <<>>
    /\ output_frames = 0
    /\ indices_to_keep = <<>>
    /\ output = <<>>

\* a call of _reduce_fps starts with none of its locals set
ReduceLocalsReset ==
    /\ remove_count' = 0
    /\ intermediate_frames' = 0
    /\ indices' = <<>>
    /\ additions' = <<>>
    /\ output_frames' = 0
    /\ indices_to_keep' = <<>>
    /\ output' = <<>>

NoFirst == [n |-> 0, frames |-> <<>>, count |-> 0, indices |-> <<>>]

InitReduce ==
    /\ \E n \in 0..MaxFrames, s \in 0..MaxStart :
          /\ frame_count = n
          /\ video = TestVideo(n, s)
    /\ ReduceLocalsUnset
    /\ rpc = "l130"
    /\ app = 1
    /\ first = NoFirst
    /\ LoadIdle

\* the result of the first call is passed to a second call
Reapply ==
    /\ pc = "idle"
    /\ rpc = "done"
    /\ app = 1
    /\ first' = [n |-> frame_count, frames |-> output,
                 count |-> output_frames, indices |-> indices]
    /\ video' = output
    /\ frame_count' = output_frames
    /\ app' = 2
    /\ rpc' = "l130"
    /\ ReduceLocalsReset
    /\ UNCHANGED load_vars

NextReduce ==
    \/ reduce_fps_l130
    \/ reduce_fps_l132
    \/ reduce_fps_l135
    \/ reduce_fps_l142
    \/ reduce_fps_l147
    \/ reduce_fps_l149
    \/ Reapply

SpecReduce == InitReduce /\ [][NextReduce]_vars
\* ------------------------------------------------------------ load_dataset
\* Strings that are searched are sequences of characters.
HMDB51 == <<"H", "M", "D", "B", "5", "1">>
Datasets == { <<"H", "M", "D", "B", "5", "1">>,
              <<"H", "M", "D", "B", "5", "1", "R", "a", "t", "e">>,
              <<"U", "C", "F", "1", "0", "1">> }

StrContains_Equal(sub, s) == sub = s

\* Python's  sub in s  on strings
StrContains(sub, s) ==
    \E i \in 1..(Len(s) - Len(sub) + 1) : SubSeq(s, i, i + Len(sub) - 1) = sub

\* tf.cast from int64 to int32 keeps the low 32 bits.  Every integer of the
\* model lies within the int32 range, where the low 32 bits are the value.
CastInt32(x) == x

\* tf.decode_raw(bytes, tf.uint8): one uint8 per byte of the string
DecodeRaw(data) == [i \in 1..Len(data) |-> data[i] % 256]

\* tf.reshape of a 1-D tensor to [f, h, w, c], row-major
Reshape4Ok(t, f, h, w, c) == Len(t) = f * h * w * c
Reshape4(t, f, h, w, c) ==
    [i \in 1..f |-> [j \in 1..h |-> [k \in 1..w |-> [l \in 1..c |->
        t[(i - 1) * h * w * c + (j - 1) * w * c + (k - 1) * c + l]]]]]

\* t[..., ::-1]: the last axis reversed (BGR to RGB)
ReverseLastAxis(t) ==
    [i \in 1..Len(t) |-> [j \in 1..Len(t[i]) |-> [k \in 1..Len(t[i][j]) |->
        [l \in 1..Len(t[i][j][k]) |->
            t[i][j][k][Len(t[i][j][k]) + 1 - l]]]]]

\* model.preprocess_tfrecords is the model's own code: its two results are
\* kept as the call they come from.
PreprocessInput(args) == [op |-> "preprocess_input", args |-> args]
PreprocessLabels(args) == [op |-> "preprocess_labels", args |-> args]

ListAppend_Front(l, x) == <<x>> \o l

\* list.append
ListAppend(l, x) == Append(l, x)

\* The records a TFRecord file can hold: a video of f frames whose bytes
\* are all different (byte k of the payload is k-1), in one of two shapes.
RecordKinds ==
    { [Height |-> 1, Width |-> 1, Channels |-> 3, Label |-> 0, Name |-> "v0"],
      [Height |-> 1, Width |-> 2, Channels |-> 3, Label |-> 1, Name |-> "v1"] }
Records ==
    { [Label |-> k.Label,
       Data |-> [i \in 1..(f * k.Height * k.Width * k.Channels) |->
                    (i - 1) % 256],
       Frames |-> f, Height |-> k.Height, Width |-> k.Width,
       Channels |-> k.Channels, Name |-> k.Name]
      : f \in 0..MaxRecFrames, k \in RecordKinds }

\* lines 27-46: the file queue is built and the three lists are empty
InitLoad ==
    /\ num_gpus \in 0..MaxGpus
    /\ dataset \in Datasets
    /\ gpu_idx = 0
    /\ pc = "l49"
    /\ features = NoFeatures
    /\ frames = 0 /\ height = 0 /\ width = 0 /\ channel = 0 /\ label = 0
    /\ name = ""
    /\ input_data_tensor = <<>>
    /\ labels_tensor = <<>>
    /\ input_data_list = <<>> /\ labels_list = <<>> /\ names_list = <<>>
    /\ reads = <<>> /\ preprocess_calls = <<>>
    /\ returned = <<>>
    /\ video = <<>> /\ frame_count = 0
    /\ ReduceLocalsUnset
    /\ rpc = "idle"
    /\ app = 0
    /\ first = NoFirst

\* line 49: the loop takes its next gpu_idx
ForGpuIdx ==
    /\ pc = "l49"
    /\ gpu_idx < num_gpus
    /\ pc' = "l52"
    /\ UNCHANGED <<num_gpus, dataset, gpu_idx, features, frames, height,
                   width, channel, label, name, input_data_tensor,
                   labels_tensor, input_data_list, labels_list, names_list,
                   reads, preprocess_calls, returned>>
    /\ UNCHANGED <<reduce_vars, app_vars>>

\* line 52 and _read_tfrecords: one record is read from the file queue
read_tfrecords ==
    /\ pc = "l52"
    /\ \E rec \in Records :
          /\ features' = rec
          /\ reads' = Append(reads, rec)
    /\ pc' = "l53"
    /\ UNCHANGED <<num_gpus, dataset, gpu_idx, frames, height, width,
                   channel, label, name, input_data_tensor, labels_tensor,
                   input_data_list, labels_list, names_list,
                   preprocess_calls, returned>>
    /\ UNCHANGED <<reduce_vars, app_vars>>

\* lines 53-59
CastFeatures ==
    /\ pc = "l53"
    /\ frames' = CastInt32(features.Frames)
    /\ height' = CastInt32(features.Height)
    /\ width' = CastInt32(features.Width)
    /\ channel' = CastInt32(features.Channels)
    /\ label' = CastInt32(features.Label)
    /\ name' = features.Name
    /\ pc' = "l61"
    /\ UNCHANGED <<num_gpus, dataset, gpu_idx, features, input_data_tensor,
                   labels_tensor, input_data_list, labels_list, names_list,
                   reads, preprocess_calls, returned>>
    /\ UNCHANGED <<reduce_vars, app_vars>>

\* lines 61-64
DecodeFrames ==
    /\ pc = "l61"
    /\ IF Reshape4Ok(DecodeRaw(features.Data), frames, height, width, channel)
       THEN /\ input_data_tensor' =
                   ReverseLastAxis(Reshape4(DecodeRaw(features.Data),
                                            frames, height, width, channel))
            /\ pc' = "l67"
       ELSE /\ pc' = "error"
            /\ UNCHANGED input_data_tensor
    /\ UNCHANGED <<num_gpus, dataset, gpu_idx, features, frames, height,
                   width, channel, label, name, labels_tensor,
                   input_data_list, labels_list, names_list, reads,
                   preprocess_calls, returned>>
    /\ UNCHANGED <<reduce_vars, app_vars>>

\* lines 67-68: 'HMDB51' in dataset, _reduce_fps is called
CallReduceFps ==
    /\ pc = "l67"
    /\ StrContains(HMDB51, dataset)
    /\ video' = input_data_tensor
    /\ frame_count' = frames
    /\ ReduceLocalsReset
    /\ rpc' = "l130"
    /\ pc' = "l68"
    /\ UNCHANGED <<num_gpus, dataset, gpu_idx, features, frames, height,
                   width, channel, label, name, input_data_tensor,
                   labels_tensor, input_data_list, labels_list, names_list,
                   reads, preprocess_calls, returned>>
    /\ UNCHANGED app_vars

\* line 68: the three results of _reduce_fps are assigned
ReturnReduceFps ==
    /\ pc = "l68"
    /\ rpc = "done"
    /\ input_data_tensor' = output
    /\ frames' = output_frames
    /\ rpc' = "idle"
    /\ pc' = "l71"
    /\ UNCHANGED <<video, frame_count, remove_count, intermediate_frames,
                   indices, additions, output_frames, indices_to_keep,
                   output>>
    /\ UNCHANGED <<num_gpus, dataset, gpu_idx, features, height, width,
                   channel, label, name, labels_tensor, input_data_list,
                   labels_list, names_list, reads, preprocess_calls,
                   returned>>
    /\ UNCHANGED app_vars

\* line 67: 'HMDB51' not in dataset
SkipReduceFps ==
    /\ pc = "l67"
    /\ ~StrContains(HMDB51, dataset)
    /\ pc' = "l71"
    /\ UNCHANGED <<num_gpus, dataset, gpu_idx, features, frames, height,
                   width, channel, label, name, input_data_tensor,
                   labels_tensor, input_data_list, labels_list, names_list,
                   reads, preprocess_calls, returned>>
    /\ UNCHANGED <<reduce_vars, app_vars>>

\* line 71
PreprocessTfrecords ==
    /\ pc = "l71"
    /\ LET args == [input_data_tensor |-> input_data_tensor,
                    frames |-> frames, height |-> height, width |-> width,
                    channel |-> channel, label |-> label]
       IN /\ preprocess_calls' = Append(preprocess_calls, args)
          /\ input_data_tensor' = PreprocessInput(args)
          /\ labels_tensor' = PreprocessLabels(args)
    /\ pc' = "l73"
    /\ UNCHANGED <<num_gpus, dataset, gpu_idx, features, frames, height,
                   width, channel, label, name, input_data_list,
                   labels_list, names_list, reads, returned>>
    /\ UNCHANGED <<reduce_vars, app_vars>>

\* lines 73-75, then back to the loop head
AppendLists ==
    /\ pc = "l73"
    /\ input_data_list' = ListAppend(input_data_list, input_data_tensor)
    /\ labels_list' = ListAppend(labels_list, labels_tensor)
    /\ names_list' = ListAppend(names_list, name)
    /\ gpu_idx' = gpu_idx + 1
    /\ pc' = "l49"
    /\ UNCHANGED <<num_gpus, dataset, features, frames, height, width,
                   channel, label, name, input_data_tensor, labels_tensor,
                   reads, preprocess_calls, returned>>
    /\ UNCHANGED <<reduce_vars, app_vars>>

\* lines 77-81: the loop is over, the three lists are returned as tensors
ReturnTensors ==
    /\ pc = "l49"
    /\ gpu_idx >= num_gpus
    /\ returned' = <<input_data_list, labels_list, names_list>>
    /\ pc' = "done"
    /\ UNCHANGED <<num_gpus, dataset, gpu_idx, features, frames, height,
                   width, channel, label, name, input_data_tensor,
                   labels_tensor, input_data_list, labels_list, names_list,
                   reads, preprocess_calls>>
    /\ UNCHANGED <<reduce_vars, app_vars>>

Init == InitLoad

Next ==
    \/ ForGpuIdx
    \/ read_tfrecords
    \/ CastFeatures
    \/ DecodeFrames
    \/ CallReduceFps
    \/ reduce_fps_l130
    \/ reduce_fps_l132
    \/ reduce_fps_l135
    \/ reduce_fps_l142
    \/ reduce_fps_l147
    \/ reduce_fps_l149
    \/ ReturnReduceFps
    \/ SkipReduceFps
    \/ PreprocessTfrecords
    \/ AppendLists
    \/ ReturnTensors

Spec == Init /\ [][Next]_vars

\* ================================================================ properties
\* the positions [6p, 6p+1, 6p+2, 6p+3, 6p+4] for p = 0 .. q-1, in order
FivesOfPeriods(q) == [j \in 1..(5 * q) |-> 6 * ((j - 1) \div 5) + ((j - 1) % 5)]

\* the increasing list of all i in [0, n) with i mod 6 # 5
KeptPositions(n) == SelectSeq([i \in 1..n |-> i - 1], LAMBDA i : i % 6 # 5)

StrictlyIncreasing(t) == \A i \in 1..(Len(t) - 1) : t[i] < t[i + 1]

\* indices and output_frames have their returned values from line 148 on
AfterSlice == rpc \in {"l149", "done"}

\* C1: for a frame count N >= 6 that is a multiple of 6, _reduce_fps returns
\* output_count = N - N/6 and keep_indices = the concatenation, for
\* p = 0 .. N/6-1, of [6p, 6p+1, 6p+2, 6p+3, 6p+4].
C1_MultipleOfSix ==
    (AfterSlice /\ frame_count >= 6 /\ frame_count % 6 = 0) =>
        /\ output_frames = frame_count - frame_count \div 6
        /\ indices = FivesOfPeriods(frame_count \div 6)

C1_Witness ==
    /\ rpc = "done"
    /\ frame_count = 12
    /\ output_frames = 10
    /\ indices = <<0, 1, 2, 3, 4, 6, 7, 8, 9, 10>>

\* C2: for a frame count N >= 1 that is not a multiple of 6, the equality
\* test frame_count == 6 * ceil(N/6) fails and _reduce_fps returns
\* output_count = N - (ceil(N/6) - 1).
C2_NotMultipleOfSix ==
    (frame_count >= 1 /\ frame_count % 6 # 0) =>
        /\ rpc = "l142" =>
              /\ remove_count = (frame_count + 5) \div 6
              /\ frame_count # remove_count * 6
        /\ AfterSlice =>
              output_frames = frame_count - ((frame_count + 5) \div 6 - 1)

C2_Witness ==
    /\ rpc = "done"
    /\ frame_count = 10
    /\ output_frames = 9

\* C3: the returned keep_indices is strictly increasing, all its values lie
\* in [0, N), and no operation of _reduce_fps (the gather included) fails.
C3_IncreasingInRange ==
    /\ rpc # "error"
    /\ AfterSlice =>
          /\ StrictlyIncreasing(indices)
          /\ \A i \in 1..Len(indices) :
                indices[i] >= 0 /\ indices[i] < frame_count
          /\ indices_to_keep = indices

C3_Witness ==
    /\ rpc = "done"
    /\ frame_count = 11
    /\ indices = <<0, 1, 2, 3, 4, 6, 7, 8, 9, 10>>

\* C4: the candidate sequence has 5 * ceil(N/6) entries 6p+k (k in 0..4);
\* output_count never exceeds its length; its first output_count entries
\* are exactly its entries below N; the returned keep_indices is the
\* increasing list of all i in [0, N) with i mod 6 # 5.
C4_Truncation ==
    /\ rpc = "l147" =>
          /\ indices = FivesOfPeriods((frame_count + 5) \div 6)
          /\ output_frames <= Len(indices)
          /\ \A j \in 1..Len(indices) :
                (j <= output_frames) <=> (indices[j] < frame_count)
    /\ AfterSlice => indices = KeptPositions(frame_count)

C4_Witness ==
    /\ rpc = "l147"
    /\ frame_count = 10
    /\ indices = <<0, 1, 2, 3, 4, 6, 7, 8, 9, 10>>
    /\ output_frames = 9

\* C5: output_frames has output_count = len(keep_indices) frames and its
\* i-th frame is the input frame at position keep_indices[i].
C5_Gather ==
    rpc = "done" =>
        /\ Len(output) = output_frames
        /\ Len(indices) = output_frames
        /\ \A i \in 1..output_frames : output[i] = video[indices[i] + 1]

C5_Witness ==
    /\ rpc = "done"
    /\ frame_count = 7
    /\ output = <<video[1], video[2], video[3], video[4], video[5], video[7]>>

\* C6 as stated: for every input of N >= 1 frames a second application of
\* _reduce_fps yields a strictly smaller frame count and a different frame
\* sequence than the first.
C6_SecondAlwaysChanges ==
    (app = 2 /\ rpc = "done" /\ first.n >= 1) =>
        /\ output_frames < first.count
        /\ output # first.frames

\* C6, amended: the second application yields a strictly smaller frame
\* count and a different frame sequence when N >= 7, and returns the first
\* result unchanged when 1 <= N <= 6.
C6_SecondChangesFromSeven ==
    (app = 2 /\ rpc = "done") =>
        /\ first.n >= 7 =>
              /\ output_frames < first.count
              /\ output # first.frames
        /\ (first.n >= 1 /\ first.n <= 6) =>
              /\ output_frames = first.count
              /\ output = first.frames

C6_Witness ==
    /\ app = 2
    /\ rpc = "done"
    /\ first.n = 12
    /\ first.count = 10
    /\ output_frames = 9

\* C7 as stated: for N = 0 the reducer yields no defined
\* (output_count, keep_indices) pair.
C7_ZeroUndefined == frame_count = 0 => rpc # "done"

\* C7, amended: for N = 0 no operation fails and the result is
\* output_count = 0 with empty keep_indices and empty output; for 0 < N < 6
\* nothing is dropped and the input passes through unchanged.
C7_ZeroDefined ==
    /\ (frame_count = 0 /\ rpc # "idle") =>
          /\ rpc # "error"
          /\ AfterSlice => (output_frames = 0 /\ indices = <<>>)
          /\ rpc = "done" => output = <<>>
    /\ (frame_count > 0 /\ frame_count < 6 /\ rpc = "done") =>
          /\ remove_count = 0
          /\ output_frames = frame_count
          /\ output = video

C7_Witness ==
    /\ app = 1
    /\ rpc = "done"
    /\ frame_count = 0
    /\ output_frames = 0
    /\ indices = <<>>

\* C8: the number of dropped frames, ceil(N/6) if N == 6*ceil(N/6) and
\* ceil(N/6) - 1 otherwise, equals floor(N/6), and output_count equals
\* N - floor(N/6), for every N >= 0.
C8_DroppedIsFloor ==
    rpc \in {"l147", "l149", "done"} =>
        /\ remove_count = frame_count \div 6
        /\ frame_count - output_frames = frame_count \div 6

C8_Witness ==
    /\ rpc = "l147"
    /\ frame_count = 13
    /\ remove_count = 2
    /\ output_frames = 11

\* the RGB tensor of a record: its bytes in [frame, row, column, channel]
\* order with the channels of every pixel reversed
RgbOf(rec) ==
    [i \in 1..rec.Frames |-> [j \in 1..rec.Height |-> [k \in 1..rec.Width |->
        [l \in 1..rec.Channels |->
            rec.Data[(i - 1) * rec.Height * rec.Width * rec.Channels
                     + (j - 1) * rec.Width * rec.Channels
                     + (k - 1) * rec.Channels
                     + (rec.Channels + 1 - l)]]]]]

NamesHMDB51 ==
    \E i \in 1..Len(dataset) :
        /\ i + 5 <= Len(dataset)
        /\ dataset[i] = "H" /\ dataset[i + 1] = "M" /\ dataset[i + 2] = "D"
        /\ dataset[i + 3] = "B" /\ dataset[i + 4] = "5"
        /\ dataset[i + 5] = "1"

\* C9: _reduce_fps runs only for a dataset whose name contains 'HMDB51';
\* for such a dataset preprocess_tfrecords gets the reduced frames with the
\* reduced frame count, for any other it gets the frames and the frame
\* count of the record as they were before the test; height, width,
\* channel and label are the record's in both cases.
C9_ReduceOnlyForHMDB51 ==
    /\ (rpc # "idle" \/ pc = "l68") => NamesHMDB51
    /\ \A i \in 1..Len(preprocess_calls) :
          LET call == preprocess_calls[i]
              rec == reads[i]
              rgb == RgbOf(rec)
              keep == KeptPositions(rec.Frames)
          IN /\ NamesHMDB51 =>
                   /\ call.frames = Len(keep)
                   /\ call.input_data_tensor =
                         [j \in 1..Len(keep) |-> rgb[keep[j] + 1]]
             /\ ~NamesHMDB51 =>
                   /\ call.frames = rec.Frames
                   /\ call.input_data_tensor = rgb
             /\ call.height = rec.Height
             /\ call.width = rec.Width
             /\ call.channel = rec.Channels
             /\ call.label = rec.Label

C9_Witness ==
    /\ Len(dataset) > 6
    /\ NamesHMDB51
    /\ Len(preprocess_calls) >= 1
    /\ reads[1].Frames = 7
    /\ preprocess_calls[1].frames = 6
    /\ Len(preprocess_calls[1].input_data_tensor) = 6

\* C10: load_dataset reads one record per loop iteration, num_gpus in all;
\* the three lists have equal length after every iteration and num_gpus
\* entries at the end, and entry i of each comes from the i-th record read.
C10_OneRecordPerGpu ==
    /\ Len(input_data_list) = gpu_idx
    /\ Len(labels_list) = gpu_idx
    /\ Len(names_list) = gpu_idx
    /\ Len(reads) = gpu_idx + (IF pc \in {"l49", "l52", "done"} THEN 0 ELSE 1)
    /\ gpu_idx <= num_gpus
    /\ \A i \in 1..gpu_idx :
          /\ input_data_list[i].op = "preprocess_input"
          /\ labels_list[i].op = "preprocess_labels"
          /\ input_data_list[i].args = preprocess_calls[i]
          /\ labels_list[i].args = preprocess_calls[i]
          /\ preprocess_calls[i].label = reads[i].Label
          /\ preprocess_calls[i].height = reads[i].Height
          /\ preprocess_calls[i].width = reads[i].Width
          /\ preprocess_calls[i].channel = reads[i].Channels
          /\ \A j \in 1..Len(preprocess_calls[i].input_data_tensor) :
                \E k \in 1..reads[i].Frames :
                    preprocess_calls[i].input_data_tensor[j] = RgbOf(reads[i])[k]
          /\ names_list[i] = reads[i].Name
    /\ pc = "done" =>
          /\ Len(reads) = num_gpus
          /\ returned = <<input_data_list, labels_list, names_list>>
          /\ Len(returned[1]) = num_gpus
          /\ Len(returned[2]) = num_gpus
          /\ Len(returned[3]) = num_gpus

C10_Witness ==
    /\ pc = "done"
    /\ num_gpus = 2
    /\ Len(reads) = 2
    /\ reads[1].Name # reads[2].Name
    /\ returned[3] = <<reads[1].Name, reads[2].Name>>
====
